---- MODULE Spec2Model ----
(***************************************************************************)
(* Model of seed.py: the Assignment and Student classes and the            *)
(* module-level script that validates the category weights, aggregates     *)
(* the weighted scores, checks progression and prints the transcript.      *)
(*                                                                         *)
(* Units.  The program computes with Python floats.  The model computes    *)
(* with exact fixed-point integers:                                        *)
(*   score   in tenths of a percent       (77.5  is 775)                   *)
(*   weight  in whole percent             (20    is 20)                    *)
(*   totals  in thousandths of a percent  (45.0  is 45000)                 *)
(* so that (score/100)*weight is score*weight thousandths.                 *)
(***************************************************************************)
EXTENDS Integers, Sequences, FiniteSets

VARIABLES
    assignments,             \* module-level list `assignments`
    total_formative_weight,  \* module-level name, NotComputed until line 130 ran
    total_summative_weight,  \* module-level name, NotComputed until line 131 ran
    student,                 \* module-level name `student`, NoStudent until line 139 ran
    order,                   \* module-level name `order`, NoOrder until line 147 ran
    out,                     \* standard output: the sequence of printed lines
    calls,                   \* history: the Student methods invoked so far, in order
    pc                       \* position of the module-level script

vars == <<assignments, total_formative_weight, total_summative_weight,
          student, order, out, calls, pc>>

----------------------------------------------------------------------------
(* Bounds of the checked input space *)

MaxLen == 2      \* longest generated assignment list (the sample list has 6)
MaxCalls == 2    \* most method calls on one Student in the free-call specification

Types == {"Formative", "Summative"}          \* the documented categories
AnyTypes == Types \cup {"Quiz"}              \* plus a value outside the documentation
Scores == {490, 500, 1000}                   \* 49.0, 50.0, 100.0
Weights == {20, 40, 41, 60, 61}
Orders == {"ascending", "descending", "other"}

NotComputed == -1
NoOrder == "<unread>"
NoStudent == [assignments |-> <<>>, formative_total |-> -1, summative_total |-> -1]

----------------------------------------------------------------------------
(* Assignment *)

Assignment(name, type, score, weight) ==
    [name |-> name, type |-> type, score |-> score, weight |-> weight]

calculate_weighted_score_swapped(self) == (self.weight * 10) * self.weight

calculate_weighted_score(self) == self.score * self.weight

----------------------------------------------------------------------------
(* The sample list and the generated lists *)

SampleAssignments ==
    << Assignment("Assignment 1", "Formative", 900, 15),
       Assignment("Assignment 2", "Formative", 650, 10),
       Assignment("Assignment 3", "Formative", 1000, 10),
       Assignment("Assignment 4", "Formative", 1000, 15),
       Assignment("Midterm", "Summative", 775, 20),
       Assignment("Final Exam", "Summative", 975, 20) >>

NameOf(i) == <<"A1", "A2", "A3", "A4">>[i]

AssignmentLists(T) ==
    UNION { { [i \in 1..n |-> Assignment(NameOf(i), f[i][1], f[i][2], f[i][3])] :
                f \in [1..n -> T \X Scores \X Weights] } : n \in 0..MaxLen }

----------------------------------------------------------------------------
(* Printed lines.  A formatted number ({:.2f}) is held in hundredths. *)

Line(kind, name, type, a, b) ==
    [kind |-> kind, name |-> name, type |-> type, a |-> a, b |-> b]

ErrorLine == Line("error", "", "", 0, 0)
ResubmissionLine(name) == Line("resubmission", name, "", 0, 0)
CongratulationsLine == Line("congratulations", "", "", 0, 0)
NotMetLine == Line("not_met", "", "", 0, 0)
FormativeBelowLine == Line("formative_below", "", "", 0, 0)
SummativeBelowLine == Line("summative_below", "", "", 0, 0)
PromptLine == Line("prompt", "", "", 0, 0)
TitleLine == Line("title", "", "", 0, 0)
HeaderLine == Line("header", "", "", 0, 0)
SeparatorLine == Line("separator", "", "", 0, 0)

\* {:.2f} of a score held in tenths
Fmt2Score(score) == score * 10
\* {:.2f} of a weight held in whole percent
Fmt2Weight(weight) == weight * 100
\* {:.2f} of a total held in thousandths: round to the nearest hundredth
Fmt2Total(total) == (total + 5) \div 10

RowLine(a) == Line("row", a.name, a.type, Fmt2Score(a.score), Fmt2Weight(a.weight))
FormativeTotalLine(total) == Line("formative_total", "", "", Fmt2Total(total), 0)
SummativeTotalLine(total) == Line("summative_total", "", "", Fmt2Total(total), 0)

----------------------------------------------------------------------------
(* Student *)

StudentInit(list) ==
    [assignments |-> list, formative_total |-> 0, summative_total |-> 0]

AddsToFormative_all(a) == TRUE

AddsToFormative(a) == a.type = "Formative"

IsEligibleForResubmission_le(a) == a.type = "Formative" /\ a.score <= 500

IsEligibleForResubmission(a) == a.type = "Formative" /\ a.score < 500

\* one iteration of the for loop of calculate_scores
calculate_scores_body(acc, a) ==
    LET weighted_score == calculate_weighted_score(a)
        self1 == IF AddsToFormative(a)
                 THEN [acc.self EXCEPT !.formative_total = @ + weighted_score]
                 ELSE [acc.self EXCEPT !.summative_total = @ + weighted_score]
        printed1 == IF IsEligibleForResubmission(a)
                    THEN Append(acc.printed, ResubmissionLine(a.name))
                    ELSE acc.printed
    IN [self |-> self1, printed |-> printed1]

RECURSIVE calculate_scores_from(_, _)
calculate_scores_from(acc, i) ==
    IF i > Len(acc.self.assignments)
    THEN acc
    ELSE calculate_scores_from(calculate_scores_body(acc, acc.self.assignments[i]), i + 1)

\* the method: the Student after the call and the lines it printed
calculate_scores(self) == calculate_scores_from([self |-> self, printed |-> <<>>], 1)

passed_formative_gt(self) == self.formative_total > 30000

passed_formative(self) == self.formative_total >= 30000

passed_summative(self) == self.summative_total >= 20000

\* the method prints only; the lines it prints
check_progression(self) ==
    IF passed_formative(self) /\ passed_summative(self)
    THEN <<CongratulationsLine>>
    ELSE <<NotMetLine>>
         \o (IF ~passed_formative(self) THEN <<FormativeBelowLine>> ELSE <<>>)
         \o (IF ~passed_summative(self) THEN <<SummativeBelowLine>> ELSE <<>>)

Reverse(s) == [i \in 1..Len(s) |-> s[Len(s) + 1 - i]]

generate_transcript_honouring_order(self) ==
    <<TitleLine, HeaderLine, SeparatorLine>>
    \o (IF order = "descending"
        THEN Reverse([i \in 1..Len(self.assignments) |-> RowLine(self.assignments[i])])
        ELSE [i \in 1..Len(self.assignments) |-> RowLine(self.assignments[i])])
    \o <<FormativeTotalLine(self.formative_total), SummativeTotalLine(self.summative_total)>>

\* the method prints only; the lines it prints
generate_transcript(self) ==
    <<TitleLine, HeaderLine, SeparatorLine>>
    \o [i \in 1..Len(self.assignments) |-> RowLine(self.assignments[i])]
    \o <<FormativeTotalLine(self.formative_total), SummativeTotalLine(self.summative_total)>>

----------------------------------------------------------------------------
(* Module-level script *)

RECURSIVE SumWeightsFrom(_, _, _)
SumWeightsFrom(list, type, i) ==
    IF i > Len(list) THEN 0
    ELSE (IF list[i].type = type THEN list[i].weight ELSE 0) + SumWeightsFrom(list, type, i + 1)

\* sum(assignment.weight for assignment in assignments if assignment.type == type)
SumWeights(list, type) == SumWeightsFrom(list, type, 1)

WeightsExceeded_ge(tf, ts) == tf >= 60 \/ ts >= 40

WeightsExceeded(tf, ts) == tf > 60 \/ ts > 40

InitWith(T) ==
    /\ assignments \in {SampleAssignments} \cup AssignmentLists(T)
    /\ total_formative_weight = NotComputed
    /\ total_summative_weight = NotComputed
    /\ student = NoStudent
    /\ order = NoOrder
    /\ out = <<>>
    /\ calls = <<>>
    /\ pc = "validate"

Init == InitWith(Types)

InitAnyType == InitWith(AnyTypes)

Validate_continuing ==
    /\ pc = "validate"
    /\ total_formative_weight' = SumWeights(assignments, "Formative")
    /\ total_summative_weight' = SumWeights(assignments, "Summative")
    /\ IF WeightsExceeded(total_formative_weight', total_summative_weight')
       THEN out' = Append(out, ErrorLine) /\ pc' = "create"
       ELSE out' = out /\ pc' = "create"
    /\ UNCHANGED <<assignments, student, order, calls>>

\* lines 130-134: sum the weights per category, print the error and stop, or go on
Validate ==
    /\ pc = "validate"
    /\ total_formative_weight' = SumWeights(assignments, "Formative")
    /\ total_summative_weight' = SumWeights(assignments, "Summative")
    /\ IF WeightsExceeded(total_formative_weight', total_summative_weight')
       THEN out' = Append(out, ErrorLine) /\ pc' = "done"
       ELSE out' = out /\ pc' = "create"
    /\ UNCHANGED <<assignments, student, order, calls>>

\* line 139
CreateStudent ==
    /\ pc = "create"
    /\ student' = StudentInit(assignments)
    /\ pc' = "calculate"
    /\ UNCHANGED <<assignments, total_formative_weight, total_summative_weight,
                   order, out, calls>>

CalculateScores_skipping_check ==
    /\ pc = "calculate"
    /\ student' = calculate_scores(student).self
    /\ out' = out \o calculate_scores(student).printed
    /\ calls' = Append(calls, "calculate_scores")
    /\ pc' = "input"
    /\ UNCHANGED <<assignments, total_formative_weight, total_summative_weight, order>>

\* line 142
CalculateScores ==
    /\ pc = "calculate"
    /\ student' = calculate_scores(student).self
    /\ out' = out \o calculate_scores(student).printed
    /\ calls' = Append(calls, "calculate_scores")
    /\ pc' = "check"
    /\ UNCHANGED <<assignments, total_formative_weight, total_summative_weight, order>>

\* line 145
CheckProgression ==
    /\ pc = "check"
    /\ out' = out \o check_progression(student)
    /\ calls' = Append(calls, "check_progression")
    /\ pc' = "input"
    /\ UNCHANGED <<assignments, total_formative_weight, total_summative_weight,
                   student, order>>

\* line 147: input() prints the prompt, then reads one line
ReadOrder ==
    /\ pc = "input"
    /\ \E text \in Orders : order' = text
    /\ out' = Append(out, PromptLine)
    /\ pc' = "transcript"
    /\ UNCHANGED <<assignments, total_formative_weight, total_summative_weight,
                   student, calls>>

\* line 149
GenerateTranscript ==
    /\ pc = "transcript"
    /\ out' = out \o generate_transcript(student)
    /\ calls' = Append(calls, "generate_transcript")
    /\ pc' = "done"
    /\ UNCHANGED <<assignments, total_formative_weight, total_summative_weight,
                   student, order>>

Next ==
    \/ Validate
    \/ CreateStudent
    \/ CalculateScores
    \/ CheckProgression
    \/ ReadOrder
    \/ GenerateTranscript

\* the script as written
Spec == Init /\ [][Next]_vars

\* the script is straight-line code: every step that can run does run
FairSpec == Init /\ [][Next]_vars /\ WF_vars(Next)

\* the script as written, over lists whose type field may hold any value
SpecAnyType == InitAnyType /\ [][Next]_vars

----------------------------------------------------------------------------
(* A client of the Student class that calls its methods freely *)

CallCalculateScores ==
    /\ pc = "client"
    /\ Len(calls) < MaxCalls
    /\ student' = calculate_scores(student).self
    /\ out' = out \o calculate_scores(student).printed
    /\ calls' = Append(calls, "calculate_scores")
    /\ UNCHANGED <<assignments, total_formative_weight, total_summative_weight, order, pc>>

CallCheckProgression ==
    /\ pc = "client"
    /\ Len(calls) < MaxCalls
    /\ out' = out \o check_progression(student)
    /\ calls' = Append(calls, "check_progression")
    /\ UNCHANGED <<assignments, total_formative_weight, total_summative_weight,
                   student, order, pc>>

CallGenerateTranscript ==
    /\ pc = "client"
    /\ Len(calls) < MaxCalls
    /\ out' = out \o generate_transcript(student)
    /\ calls' = Append(calls, "generate_transcript")
    /\ UNCHANGED <<assignments, total_formative_weight, total_summative_weight,
                   student, order, pc>>

NewStudent ==
    /\ pc = "validate"
    /\ student' = StudentInit(assignments)
    /\ pc' = "client"
    /\ UNCHANGED <<assignments, total_formative_weight, total_summative_weight,
                   order, out, calls>>

NextClient ==
    \/ NewStudent
    \/ CallCalculateScores
    \/ CallCheckProgression
    \/ CallGenerateTranscript

SpecClient == Init /\ [][NextClient]_vars

----------------------------------------------------------------------------
(* Vocabulary of the properties *)

Count(s, x) == Cardinality({i \in 1..Len(s) : s[i] = x})

KindCount(s, kind) == Cardinality({i \in 1..Len(s) : s[i].kind = kind})

Printed(line) == \E i \in 1..Len(out) : out[i] = line

\* sum of (score/100)*weight over the records of one type, in thousandths
RECURSIVE WeightedSumOf(_, _)
WeightedSumOf(list, type) ==
    IF list = <<>> THEN 0
    ELSE LET n == Len(list)
         IN WeightedSumOf(SubSeq(list, 1, n - 1), type)
            + (IF list[n].type = type THEN list[n].score * list[n].weight ELSE 0)

\* sum of the weights of the records of one type
RECURSIVE WeightSumOf(_, _)
WeightSumOf(list, type) ==
    IF list = <<>> THEN 0
    ELSE LET n == Len(list)
         IN WeightSumOf(SubSeq(list, 1, n - 1), type)
            + (IF list[n].type = type THEN list[n].weight ELSE 0)

PassesValidation(list) ==
    WeightSumOf(list, "Formative") <= 60 /\ WeightSumOf(list, "Summative") <= 40

\* exactly one calculate_scores has run on the Student built from `assignments`
AfterOneCalculate == student # NoStudent /\ Count(calls, "calculate_scores") = 1

----------------------------------------------------------------------------
(* C1 *)

\* C1: for every list that passes validation, after one calculate_scores on a
\* fresh Student formative_total is the sum of (score/100)*weight over the
\* Formative records and summative_total the same sum over the Summative records.
C1_TotalsAreCategorySums ==
    (AfterOneCalculate /\ PassesValidation(assignments)) =>
        /\ student.formative_total = WeightedSumOf(assignments, "Formative")
        /\ student.summative_total = WeightedSumOf(assignments, "Summative")

C1_Witness ==
    /\ AfterOneCalculate
    /\ Len(assignments) = 2
    /\ assignments[1].type = "Formative" /\ assignments[2].type = "Formative"
    /\ assignments[1].score = 490 /\ assignments[1].weight = 20
    /\ assignments[2].score = 1000 /\ assignments[2].weight = 40
    /\ student.formative_total = 49800
    /\ student.summative_total = 0

----------------------------------------------------------------------------
(* C2 *)

ResubmissionNames == 
    LET notices == SelectSeq(out, LAMBDA l : l.kind = "resubmission")
    IN [i \in 1..Len(notices) |-> notices[i].name]

EligibleNames(list) ==
    LET eligible == SelectSeq(list, LAMBDA a : a.type = "Formative" /\ a.score < 500)
    IN [i \in 1..Len(eligible) |-> eligible[i].name]

\* C2: the resubmission notices printed by one calculate_scores name exactly the
\* Formative records with score < 50, each once, in list order; a Formative
\* record with score 50 and any Summative record is never named.
C2_ResubmissionNotices ==
    AfterOneCalculate => ResubmissionNames = EligibleNames(assignments)

C2_Witness ==
    /\ AfterOneCalculate
    /\ Len(assignments) = 2
    /\ assignments[1].type = "Formative" /\ assignments[1].score = 490
    /\ assignments[2].type = "Formative" /\ assignments[2].score = 490
    /\ ResubmissionNames = <<"A1", "A2">>

----------------------------------------------------------------------------
(* C3 *)

\* check_progression has run once, after the totals were computed
AfterCheck == pc \in {"input", "transcript", "done"} /\ student # NoStudent

\* C3: check_progression prints the congratulation iff formative_total >= 30 and
\* summative_total >= 20, otherwise the failure line, followed by the
\* formative-below-30 line exactly when formative_total < 30 and the
\* summative-below-20 line exactly when summative_total < 20.
C3_Progression ==
    AfterCheck =>
        LET passed == student.formative_total >= 30000 /\ student.summative_total >= 20000
            lines == SelectSeq(out, LAMBDA l : l.kind \in {"congratulations", "not_met",
                                                          "formative_below", "summative_below"})
        IN /\ passed => lines = <<CongratulationsLine>>
           /\ ~passed =>
                /\ lines[1] = NotMetLine
                /\ KindCount(lines, "not_met") = 1
                /\ KindCount(lines, "congratulations") = 0
                /\ KindCount(lines, "formative_below")
                     = (IF student.formative_total < 30000 THEN 1 ELSE 0)
                /\ KindCount(lines, "summative_below")
                     = (IF student.summative_total < 20000 THEN 1 ELSE 0)

C3_Witness ==
    /\ AfterCheck
    /\ student.formative_total = 30000
    /\ student.summative_total = 20000
    /\ Printed(CongratulationsLine)

----------------------------------------------------------------------------
(* C4 *)

\* C4: validation fails iff the Formative weights sum to more than 60 or the
\* Summative weights sum to more than 40 (61 is rejected, 60 with 40 accepted).
C4_ValidationIff ==
    pc # "validate" =>
        ( (Printed(ErrorLine) /\ student = NoStudent /\ pc = "done")
          <=> (WeightSumOf(assignments, "Formative") > 60
               \/ WeightSumOf(assignments, "Summative") > 40) )

C4_Witness ==
    /\ pc = "create"
    /\ WeightSumOf(assignments, "Formative") = 60
    /\ WeightSumOf(assignments, "Summative") = 40
    /\ ~Printed(ErrorLine)

----------------------------------------------------------------------------
(* C5 *)

\* C5: once the error message is printed the program has stopped: no Student
\* exists, no method was invoked, nothing else was printed, the ordering input
\* was not read and no total was computed.
C5_FailureStops ==
    Printed(ErrorLine) =>
        /\ pc = "done"
        /\ out = <<ErrorLine>>
        /\ student = NoStudent
        /\ calls = <<>>
        /\ order = NoOrder

C5_Witness ==
    /\ Printed(ErrorLine)
    /\ pc = "done"
    /\ total_formative_weight = 61

----------------------------------------------------------------------------
(* C6 *)

ValidationSucceeded == pc # "validate" /\ ~Printed(ErrorLine)

\* position of a line in a successful run's output
Rank(l) ==
    CASE l.kind = "resubmission" -> 1
      [] l.kind \in {"congratulations", "not_met"} -> 2
      [] l.kind = "formative_below" -> 3
      [] l.kind = "summative_below" -> 4
      [] l.kind = "prompt" -> 5
      [] l.kind = "title" -> 6
      [] l.kind = "header" -> 7
      [] l.kind = "separator" -> 8
      [] l.kind = "row" -> 9
      [] l.kind = "formative_total" -> 10
      [] l.kind = "summative_total" -> 11
      [] OTHER -> 0

OutputInOrder ==
    ValidationSucceeded =>
        /\ \A i, j \in 1..Len(out) : i < j => Rank(out[i]) <= Rank(out[j])
        /\ \A i \in 1..Len(out) : Rank(out[i]) >= 1
        /\ (\E i \in 1..Len(out) : Rank(out[i]) >= 6) => order # NoOrder
        /\ (order # NoOrder) <=> Printed(PromptLine)
        /\ KindCount(out, "prompt") <= 1
        /\ pc = "done" =>
             /\ KindCount(out, "congratulations") + KindCount(out, "not_met") = 1
             /\ KindCount(out, "prompt") = 1
             /\ KindCount(out, "title") = 1
             /\ KindCount(out, "header") = 1
             /\ KindCount(out, "row") = Len(assignments)
             /\ KindCount(out, "formative_total") = 1
             /\ KindCount(out, "summative_total") = 1
             /\ out[Len(out)].kind = "summative_total"

\* C6: in a run where validation succeeds the output is, in this order, the
\* resubmission notices, the progression message(s), the prompt of the single
\* read of the ordering preference, then the transcript (header, one row per
\* record, the two totals); no transcript line precedes the read, no notice
\* follows the progression message, and the run terminates after the last line.
C6_EventOrder ==
    /\ []OutputInOrder
    /\ [][pc # "done"]_vars
    /\ <>(pc = "done")

C6_Witness ==
    /\ ValidationSucceeded
    /\ pc = "done"
    /\ Len(assignments) = 2
    /\ KindCount(out, "resubmission") = 2
    /\ Printed(NotMetLine)
    /\ Printed(SummativeBelowLine)
    /\ KindCount(out, "row") = 2

----------------------------------------------------------------------------
(* C7 *)

AfterSampleCalculate == assignments = SampleAssignments /\ pc = "check"

\* C7 as stated: on the sample list validation passes and calculate_scores
\* leaves formative_total = 49.5 and summative_total = 39.5.
C7_SampleTotalsAsStated ==
    (assignments = SampleAssignments /\ pc \notin {"validate", "create", "calculate"}) =>
        /\ ~Printed(ErrorLine)
        /\ student.formative_total = 49500
        /\ student.summative_total = 39500

\* C7 (amended): on the sample list validation passes and calculate_scores
\* leaves formative_total = 45.0 and summative_total = 35.0.
C7_SampleTotals ==
    (assignments = SampleAssignments /\ pc \notin {"validate", "create", "calculate"}) =>
        /\ ~Printed(ErrorLine)
        /\ student.formative_total = 45000
        /\ student.summative_total = 35000

C7_Witness ==
    /\ AfterSampleCalculate
    /\ calls = <<"calculate_scores">>
    /\ total_formative_weight = 50
    /\ total_summative_weight = 40
    /\ student.formative_total = 45000

----------------------------------------------------------------------------
(* C8 *)

\* C8: once calculate_scores has run on a Student, no further call of any of
\* its methods changes formative_total or summative_total.
C8_TotalsStableUnderRepeatedCalls ==
    [][ (student # NoStudent /\ Count(calls, "calculate_scores") >= 1) =>
            /\ student'.formative_total = student.formative_total
            /\ student'.summative_total = student.summative_total ]_vars

----------------------------------------------------------------------------
(* C9 *)

TranscriptPrinted ==
    LET k == CHOOSE i \in 1..Len(out) : out[i] = PromptLine
    IN SubSeq(out, k + 1, Len(out))

----------------------------------------------------------------------------
(* C10 *)

\* line 131: the record's weight is counted toward the summative cap
CountedTowardSummativeCap(a) == a.type = "Summative"
\* line 130: the record's weight is counted toward the formative cap
CountedTowardFormativeCap(a) == a.type = "Formative"

\* C10: every record, whatever its type, is counted toward the summative cap
\* exactly when it is added to summative_total and toward the formative cap
\* exactly when it is added to formative_total; so when validation passes,
\* after one calculate_scores formative_total <= 60 and summative_total <= 40.
C10_SameClassification ==
    (ValidationSucceeded /\ AfterOneCalculate) =>
        /\ \A i \in 1..Len(assignments) :
              /\ CountedTowardFormativeCap(assignments[i]) <=> AddsToFormative(assignments[i])
              /\ CountedTowardSummativeCap(assignments[i]) <=> ~AddsToFormative(assignments[i])
        /\ student.formative_total <= 60000
        /\ student.summative_total <= 40000

====
